---- MODULE Spec2Model ----
(***************************************************************************)
(* Model of the price-change / price-streak recompute of the grocery index *)
(* backend (backend/src/routes/statcan.ts, the revision with streaks).     *)
(*                                                                         *)
(* Numbers.  A JavaScript number is modelled as an extended rational       *)
(* [num, den]: den > 0 is the finite value num/den in lowest terms,        *)
(* <<1,0>> and <<-1,0>> are +Infinity and -Infinity, <<0,0>> is NaN.       *)
(* Rounding of IEEE doubles is not modelled; sign, zero, infinity and NaN  *)
(* are.  Prices are integers in an abstract price unit.                    *)
(*                                                                         *)
(* Dates.  REF_DATE 'YYYY-MM' is modelled as the integer YYYYMM, whose     *)
(* numeric order is the string order the sort({REF_DATE: 1}) uses.         *)
(***************************************************************************)
EXTENDS Integers, Sequences, FiniteSets, TLC

\* ------------------------------------------------------------------ bounds
\* The longest series of the single-series specification.
MaxLen == 3
\* Prices are 0..MaxPrice.
MaxPrice == 2
\* The most observations the whole-system specification stores.
MaxDocs == 3
\* The clock reads 0..MaxClock.
MaxClock == 1

Geos == {"Canada", "Ontario"}
Products == {"Apples", "Bread"}

\* The (product, region) pair the single-series specification works on.
CalcGeo == "Canada"
CalcProduct == "Apples"

\* The first month the import pipeline delivers (2023-11, so that the series
\* cross a year boundary).
StartPeriod == 2023 * 100 + 11

\* -------------------------------------------------------- JavaScript numbers
Abs(n) == IF n < 0 THEN -n ELSE n

Sign(n) == IF n > 0 THEN 1 ELSE IF n < 0 THEN -1 ELSE 0

RECURSIVE GCD(_, _)
GCD(a, b) == IF b = 0 THEN a ELSE GCD(b, a % b)

\* num/den in lowest terms with a positive denominator; den = 0 gives
\* +Infinity, -Infinity or NaN by the sign of num.
Norm(n, d) ==
    IF d = 0 THEN [num |-> Sign(n), den |-> 0]
    ELSE LET g == GCD(Abs(n), Abs(d))
             s == Sign(d)
         IN  [num |-> (s * n) \div g, den |-> (s * d) \div g]

Fin(n) == [num |-> n, den |-> 1]

NaN == [num |-> 0, den |-> 0]

isNaN(x) == x.den = 0 /\ x.num = 0

\* null in a Number path: no value.
JsNull == [num |-> 0, den |-> -1]

IsNull(x) == x.den < 0

IsFinite(x) == x.den > 0

\* a - b of two numbers that are finite or NaN.
JsSub(a, b) ==
    IF isNaN(a) \/ isNaN(b) THEN NaN
    ELSE Norm(a.num * b.den - b.num * a.den, a.den * b.den)

\* a / b of two numbers that are finite or NaN: x/0 is +-Infinity, 0/0 is NaN.
JsDiv(a, b) ==
    IF isNaN(a) \/ isNaN(b) THEN NaN
    ELSE Norm(a.num * b.den, a.den * b.num)

\* a * n for an integer n > 0: Infinity and NaN are kept.
JsMulInt(a, n) == Norm(a.num * n, a.den)

\* x > 0 and x < 0 as JavaScript evaluates them: both false on NaN.
JsGtZero(x) == x.num > 0

JsLtZero(x) == x.num < 0

\* ------------------------------------------------------------- raw values
\* VALUE is Schema.Types.Mixed: a number, null, an empty string or
\* non-numeric text (numeric text converts to its number and is not told
\* apart from it; a missing field converts like non-numeric text).
NumberValue(n) == [kind |-> "number", num |-> n]

NullValue == [kind |-> "null", num |-> 0]

EmptyString == [kind |-> "empty", num |-> 0]

TextValue == [kind |-> "text", num |-> 0]

\* Number(v), also the ToNumber of the operands of v - w.
ToNumber(v) ==
    CASE v.kind = "number" -> Fin(v.num)
      [] v.kind = "null" -> Fin(0)
      [] v.kind = "empty" -> Fin(0)
      [] OTHER -> NaN

\* ------------------------------------------------------------------ dates
NextPeriod(d) == IF d % 100 = 12 THEN (d \div 100 + 1) * 100 + 1 ELSE d + 1

PrevPeriod(d) == IF d % 100 = 1 THEN (d \div 100 - 1) * 100 + 12 ELSE d - 1

\* --------------------------------------------------------------------------
\* The Date of JavaScript, as far as the year-ago period needs it: a calendar
\* day [y, m, d] (m from 1 to 12) of the proleptic Gregorian calendar.  The
\* local time of the server is UTC plus a whole number of hours that is the
\* same on both days involved (no daylight-saving change between them).

IsLeap(y) == (y % 4 = 0 /\ y % 100 # 0) \/ y % 400 = 0

DaysInMonth(y, m) ==
    IF m = 2 THEN (IF IsLeap(y) THEN 29 ELSE 28)
    ELSE IF m \in {4, 6, 9, 11} THEN 30 ELSE 31

NextDay(dt) ==
    IF dt.d < DaysInMonth(dt.y, dt.m) THEN [dt EXCEPT !.d = @ + 1]
    ELSE IF dt.m < 12 THEN [y |-> dt.y, m |-> dt.m + 1, d |-> 1]
    ELSE [y |-> dt.y + 1, m |-> 1, d |-> 1]

PrevDay(dt) ==
    IF dt.d > 1 THEN [dt EXCEPT !.d = @ - 1]
    ELSE IF dt.m > 1 THEN [y |-> dt.y, m |-> dt.m - 1, d |-> DaysInMonth(dt.y, dt.m - 1)]
    ELSE [y |-> dt.y - 1, m |-> 12, d |-> 31]

RECURSIVE AddDays(_, _)
AddDays(dt, n) == IF n = 0 THEN dt ELSE AddDays(NextDay(dt), n - 1)

\* new Date('YYYY-MM-01'): a date-only string is midnight UTC of that day.
ParseDate(period) == [y |-> period \div 100, m |-> period % 100, d |-> 1]

\* The local calendar day of midnight UTC of dt: west of Greenwich it is
\* still the evening of the day before.
LocalDay(dt, offset) == IF offset < 0 THEN PrevDay(dt) ELSE dt

\* The UTC calendar day of the local day dt at the local time of day that
\* midnight UTC has in the zone.
UTCDay(dt, offset) == IF offset < 0 THEN NextDay(dt) ELSE dt

\* Date.prototype.setMonth(month) on the local day dt, month counted from 0
\* and possibly negative: the year and the month are normalised, and a day
\* of the month the target month does not have runs over into the next.
SetMonth(dt, month) ==
    AddDays([y |-> dt.y + (month \div 12), m |-> (month % 12) + 1, d |-> 1], dt.d - 1)

\* d = new Date(currentDate + '-01'); d.setMonth(d.getMonth() - 12);
\* d.toISOString().slice(0, 7): parsed as UTC, shifted on the local
\* calendar, printed as UTC.
YearAgoDate(currentDate, offset) ==
    LET local   == LocalDay(ParseDate(currentDate), offset)
        shifted == SetMonth(local, (local.m - 1) - 12)
        utc     == UTCDay(shifted, offset)
    IN  utc.y * 100 + utc.m

\* ------------------------------------------------------------------ state
VARIABLES
    statcan,         \* collection table_18100245: the raw observations
    priceChanges,    \* collection price_changes
    priceStreaks,    \* collection price_streaks
    now,             \* the wall clock new Date() reads
    pc,              \* where the recompute stands: idle, loop, fetched, changed
    geo,             \* the region of the running recompute
    products,        \* the products the loop has still to visit
    product,         \* the loop variable
    priceData,       \* the series fetched for product
    processedCount,
    response,        \* the last answer of POST /calculate-changes
    written,         \* history: products whose price-change upsert succeeded in this run
    counted,         \* history: products this run counted
    fresh,           \* history: keys counted by a run and not ingested since
    staleRemoved,    \* history: the step just taken deleted a stored streak
    failed,          \* history: products whose iteration threw in this run
    outage,          \* history: a store call of this run was rejected as unavailable
    allPc,           \* GET /calculate-all: "idle" or "regions" (inside its loop)
    geoValues,       \* GET /calculate-all: the regions the loop has yet to take
    results,         \* GET /calculate-all: the per-region results pushed so far
    totalProcessed,  \* GET /calculate-all: the running total
    allResponse,     \* the last answer of GET /calculate-all
    writtenTotal,    \* history: change records written in the regions that succeeded
    runs,            \* the concurrent calls of calculateAndStorePriceChanges
    tz,              \* the offset from UTC, in hours, of the server's local time
    yoyResponse,     \* the last answer of GET /all-price-changes
    reply,           \* the read handler in flight and the last answer of one
    shouldConnectMongo, \* app.ts: the process connects to MongoDB
    readyState,      \* mongoose.connection.readyState
    gate             \* the last answer of the readiness middleware

vars == <<statcan, priceChanges, priceStreaks, now, pc, geo, products, product,
          priceData, processedCount, response, written, counted, fresh,
          staleRemoved, failed, outage, allPc, geoValues, results,
          totalProcessed, allResponse, writtenTotal, runs, tz, yoyResponse,
          reply, shouldConnectMongo, readyState, gate>>

runVars == <<pc, geo, products, product, priceData, processedCount, written, counted,
             failed, outage>>

allVars == <<allPc, geoValues, results, totalProcessed, allResponse, writtenTotal>>

\* What the handlers of /calculate-changes and the loop body leave alone.
yoyVars == <<tz, yoyResponse>>

\* What the recompute and the year-over-year read leave alone.
webVars == <<reply, shouldConnectMongo, readyState, gate>>

restVars == <<allVars, runs, yoyVars, webVars>>

\* ---------------------------------------------------------------- queries
RECURSIVE SortByRefDate(_)
\* .sort({ REF_DATE: 1 }) of a set of documents with distinct REF_DATE.
SortByRefDate(docs) ==
    IF docs = {} THEN << >>
    ELSE LET first == CHOOSE d \in docs : \A e \in docs : d.REF_DATE <= e.REF_DATE
         IN  <<first>> \o SortByRefDate(docs \ {first})

\* StatCan.find({ GEO: geo, Products: product }).sort({ REF_DATE: 1 })
Find(coll, g, p) == SortByRefDate({d \in coll : d.GEO = g /\ d.Products = p})

\* StatCan.distinct('Products', { GEO: geo })
Distinct(coll, g) == {d.Products : d \in {e \in coll : e.GEO = g}}

\* A filter on the product alone.
MatchingProduct(coll, p, g) == {d \in coll : d.product = p}

\* The documents of a result collection that match { product, geo }.
Matching(coll, p, g) == {d \in coll : d.product = p /\ d.geo = g}

\* A write that inserts and never looks for the stored document.
InsertAlways(coll, p, g, doc) == {coll \cup {doc}}

\* Model.findOneAndUpdate({ product, geo }, doc, { upsert: true }): the
\* collections it can leave.  One matching document is replaced; with no
\* match the document is inserted.
FindOneAndUpdate(coll, p, g, doc) ==
    IF Matching(coll, p, g) = {} THEN {coll \cup {doc}}
    ELSE {(coll \ {d}) \cup {doc} : d \in Matching(coll, p, g)}

\* A delete that removes nothing.
DeleteNothing(coll, p, g) == {coll}

\* Model.deleteOne({ product, geo }): the collections it can leave.
DeleteOne(coll, p, g) ==
    IF Matching(coll, p, g) = {} THEN {coll}
    ELSE {coll \ {d} : d \in Matching(coll, p, g)}

\* new Date(): the clock may have advanced since it was last read.
NewDate(t) == {t} \cup (IF t < MaxClock THEN {t + 1} ELSE {})

\* ------------------------------------------------------------ calculators
\* The oldest point taken for the current one.
CurrentFirst(pd) == pd[1]

\* const current = priceData[priceData.length - 1] (1-based here)
Current(pd) == pd[Len(pd)]

Previous(pd) == pd[Len(pd) - 1]

\* The two early exits of the loop body: too few points, or a NaN price.
Skipped(pd) ==
    \/ Len(pd) < 2
    \/ isNaN(ToNumber(Current(pd).VALUE))
    \/ isNaN(ToNumber(Previous(pd).VALUE))

\* The document handed to PriceChange.findOneAndUpdate.
ChangeDoc(p, g, pd, t) ==
    LET currentPrice == ToNumber(Current(pd).VALUE)
        previousPrice == ToNumber(Previous(pd).VALUE)
        change == JsSub(currentPrice, previousPrice)
        changePercent == JsMulInt(JsDiv(change, previousPrice), 100)
    IN  [product |-> p, geo |-> g,
         currentPrice |-> currentPrice, previousPrice |-> previousPrice,
         change |-> change, changePercent |-> changePercent,
         currentDate |-> Current(pd).REF_DATE,
         previousDate |-> Previous(pd).REF_DATE,
         lastUpdated |-> t]

\* Mongoose casts the update to the schema: a NaN in a Number path is a
\* CastError, which rejects the findOneAndUpdate before anything is written.
CastError(doc) ==
    \/ isNaN(doc.currentPrice)
    \/ isNaN(doc.previousPrice)
    \/ isNaN(doc.change)
    \/ isNaN(doc.changePercent)

RECURSIVE StreakWalkPause(_, _, _)
\* The walk with a flat step skipped instead of ending the streak.
StreakWalkPause(pd, i, st) ==
    IF i <= 1 THEN st
    ELSE LET diff == JsSub(ToNumber(pd[i].VALUE), ToNumber(pd[i - 1].VALUE))
         IN  IF JsGtZero(diff)
             THEN IF st.streakType \in {"increase", "null"}
                  THEN StreakWalkPause(pd, i - 1,
                           [currentStreak |-> st.currentStreak + 1,
                            streakType |-> "increase",
                            streakStartIdx |-> i - 1])
                  ELSE st
             ELSE IF JsLtZero(diff)
             THEN IF st.streakType \in {"decrease", "null"}
                  THEN StreakWalkPause(pd, i - 1,
                           [currentStreak |-> st.currentStreak + 1,
                            streakType |-> "decrease",
                            streakStartIdx |-> i - 1])
                  ELSE st
             ELSE StreakWalkPause(pd, i - 1, st)

RECURSIVE StreakWalk(_, _, _)
\* The backward loop for (let i = priceData.length - 1; i > 0; i--); i is
\* 1-based here, st is [currentStreak, streakType, streakStartIdx].
StreakWalk(pd, i, st) ==
    IF i <= 1 THEN st
    ELSE LET diff == JsSub(ToNumber(pd[i].VALUE), ToNumber(pd[i - 1].VALUE))
         IN  IF JsGtZero(diff)
             THEN IF st.streakType \in {"increase", "null"}
                  THEN StreakWalk(pd, i - 1,
                           [currentStreak |-> st.currentStreak + 1,
                            streakType |-> "increase",
                            streakStartIdx |-> i - 1])
                  ELSE st
             ELSE IF JsLtZero(diff)
             THEN IF st.streakType \in {"decrease", "null"}
                  THEN StreakWalk(pd, i - 1,
                           [currentStreak |-> st.currentStreak + 1,
                            streakType |-> "decrease",
                            streakStartIdx |-> i - 1])
                  ELSE st
             ELSE st

\* A walk that starts one step too far back and never looks at the most
\* recent difference.
CalcStreakSkipLatest(pd) ==
    StreakWalk(pd, Len(pd) - 1,
               [currentStreak |-> 1, streakType |-> "null", streakStartIdx |-> Len(pd)])

\* The streak calculation of one product.
CalcStreak(pd) ==
    StreakWalk(pd, Len(pd),
               [currentStreak |-> 1, streakType |-> "null", streakStartIdx |-> Len(pd)])

\* A write without the test: every calculation is upserted.
HasStreakAlways(st) == TRUE

\* The threshold one too high.
HasStreakOverTwo(st) == st.currentStreak > 2 /\ st.streakType # "null"

\* if (currentStreak > 1 && streakType)
HasStreak(st) == st.currentStreak > 1 /\ st.streakType # "null"

\* A document that carries the whole series instead of the slice.
StreakDocWholeSeries(p, g, pd, st, t) ==
    [product |-> p, geo |-> g,
     streakLength |-> st.currentStreak,
     streakType |-> st.streakType,
     data |-> pd,
     lastUpdated |-> t]

\* The document handed to PriceStreak.findOneAndUpdate.
StreakDoc(p, g, pd, st, t) ==
    [product |-> p, geo |-> g,
     streakLength |-> st.currentStreak,
     streakType |-> st.streakType,
     data |-> SubSeq(pd, st.streakStartIdx, Len(pd)),
     lastUpdated |-> t]

\* ---------------------------------------------------------------- actions
NoResponse == [status |-> 0, geo |-> "", processedCount |-> 0]

NoAllResponse ==
    [status |-> 0, totalProcessed |-> 0, totalRegions |-> 0, results |-> << >>]

NoYoYResponse == [status |-> 0, geo |-> "", products |-> {}, lookups |-> {}]

\* No read handler has answered.  stage is where the handler in flight
\* stands, queries (history) the calls it has sent to the store.
NoReply ==
    [route |-> "", geo |-> "", limit |-> 0, stage |-> "idle", status |-> 0,
     error |-> "", gainers |-> << >>, losers |-> << >>, results |-> << >>,
     queries |-> 0, product |-> "", date |-> 0]

\* The readiness middleware has answered no request itself.
NoGate == [status |-> 0, error |-> "", readyState |-> 1]

\* Two requests whose calls of calculateAndStorePriceChanges overlap: the
\* awaits of one call interleave with those of the other.
Runs == {1, 2}

\* The locals of a call that has not started: its position, the products the
\* loop has yet to take, the product and the series of the iteration, the
\* count, the document of an upsert the store has decided to insert, and
\* (history) the series of the product the call counted last.
IdleRun ==
    [pc |-> "idle", products |-> {}, product |-> "", priceData |-> << >>,
     processedCount |-> 0, pending |-> {}, last |-> << >>]

Init ==
    /\ statcan = {}
    /\ priceChanges = {}
    /\ priceStreaks = {}
    /\ now = 0
    /\ pc = "idle"
    /\ geo = ""
    /\ products = {}
    /\ product = ""
    /\ priceData = << >>
    /\ processedCount = 0
    /\ response = NoResponse
    /\ written = {}
    /\ counted = {}
    /\ fresh = {}
    /\ staleRemoved = FALSE
    /\ failed = {}
    /\ outage = FALSE
    /\ allPc = "idle"
    /\ geoValues = {}
    /\ results = << >>
    /\ totalProcessed = 0
    /\ allResponse = NoAllResponse
    /\ writtenTotal = 0
    /\ runs = [r \in Runs |-> IdleRun]
    /\ tz = 0
    /\ yoyResponse = NoYoYResponse
    /\ reply = NoReply
    /\ shouldConnectMongo = TRUE
    /\ readyState = 1
    /\ gate = NoGate

\* The import pipeline stores the observation of the month that follows the
\* latest one of (g, p).  It runs before the recompute it triggers, never
\* during one; the answer of the previous request has been delivered.
Import(g, p, v) ==
    /\ pc = "idle"
    /\ allPc = "idle"
    /\ \A r \in Runs : runs[r].pc = "idle"
    /\ LET series == Find(statcan, g, p)
           period == IF series = << >> THEN StartPeriod
                     ELSE NextPeriod(series[Len(series)].REF_DATE)
       IN  statcan' = statcan \cup
               {[GEO |-> g, Products |-> p, REF_DATE |-> period, VALUE |-> v]}
    /\ fresh' = fresh \ {<<g, p>>}
    /\ response' = NoResponse
    /\ allResponse' = NoAllResponse
    /\ staleRemoved' = FALSE
    /\ UNCHANGED <<priceChanges, priceStreaks, now, runVars>>
    /\ UNCHANGED <<allPc, geoValues, results, totalProcessed, writtenTotal, runs, yoyVars, webVars>>

\* POST /calculate-changes { geo: g } up to the first await of the loop:
\* StatCan.distinct answers, or rejects and the handler answers 500.
CalculateChanges(g) ==
    /\ pc = "idle"
    /\ allPc = "idle"
    /\ \/ /\ pc' = "loop"
          /\ geo' = g
          /\ products' = Distinct(statcan, g)
          /\ processedCount' = 0
          /\ written' = {}
          /\ counted' = {}
          /\ failed' = {}
          /\ outage' = FALSE
          /\ response' = NoResponse
          /\ UNCHANGED <<product, priceData>>
       \/ /\ response' = [status |-> 500, geo |-> g, processedCount |-> 0]
          /\ UNCHANGED runVars
    /\ staleRemoved' = FALSE
    /\ UNCHANGED <<statcan, priceChanges, priceStreaks, now, fresh>>
    /\ UNCHANGED restVars

\* A loop body without the inner try/catch: the rejection leaves the loop and
\* the run ends with the products that follow unvisited.
AbortRun ==
    /\ pc' = "idle"
    /\ product' = ""
    /\ priceData' = <<>>

\* The catch of the loop body, and every continue: on to the next product.
NextProduct ==
    /\ pc' = "loop"
    /\ product' = ""
    /\ priceData' = << >>

\* A loop that, when it skips a product, also removes the change record
\* stored for it.
FetchSeriesPurging ==
    /\ pc = "loop"
    /\ \E p \in products :
          /\ products' = products \ {p}
          /\ \/ /\ LET pd == Find(statcan, geo, p)
                   IN  IF Skipped(pd)
                       THEN /\ NextProduct
                            /\ priceChanges' = priceChanges \ Matching(priceChanges, p, geo)
                       ELSE /\ pc' = "fetched"
                            /\ product' = p
                            /\ priceData' = pd
                            /\ UNCHANGED priceChanges
                /\ UNCHANGED <<failed, outage>>
             \/ /\ NextProduct
                /\ failed' = failed \cup {p}
                /\ outage' = TRUE
                /\ UNCHANGED priceChanges
    /\ staleRemoved' = FALSE
    /\ UNCHANGED <<statcan, priceStreaks, now, geo, processedCount,
                   response, written, counted, fresh>>
    /\ UNCHANGED restVars

\* One product leaves the list; StatCan.find answers and the loop body runs
\* to its first write, or skips the product, or find rejects (caught).
FetchSeries ==
    /\ pc = "loop"
    /\ \E p \in products :
          /\ products' = products \ {p}
          /\ \/ /\ LET pd == Find(statcan, geo, p)
                   IN  IF Skipped(pd)
                       THEN NextProduct
                       ELSE /\ pc' = "fetched"
                            /\ product' = p
                            /\ priceData' = pd
                /\ UNCHANGED <<failed, outage>>
             \/ /\ NextProduct
                /\ failed' = failed \cup {p}
                /\ outage' = TRUE
    /\ staleRemoved' = FALSE
    /\ UNCHANGED <<statcan, priceChanges, priceStreaks, now, geo, processedCount,
                   response, written, counted, fresh>>
    /\ UNCHANGED restVars

\* PriceChange.findOneAndUpdate: it writes the record, or it rejects (the
\* cast fails, or the store is unavailable) and the catch moves on.
UpsertChange ==
    /\ pc = "fetched"
    /\ \E t \in NewDate(now) :
          /\ now' = t
          /\ LET doc == ChangeDoc(product, geo, priceData, t)
             IN  \/ /\ ~CastError(doc)
                    /\ priceChanges' \in FindOneAndUpdate(priceChanges, product, geo, doc)
                    /\ written' = written \cup {product}
                    /\ pc' = "changed"
                    /\ UNCHANGED <<product, priceData, failed, outage>>
                 \/ /\ CastError(doc)
                    /\ NextProduct
                    /\ failed' = failed \cup {product}
                    /\ UNCHANGED <<priceChanges, written, outage>>
                 \/ /\ NextProduct
                    /\ failed' = failed \cup {product}
                    /\ outage' = TRUE
                    /\ UNCHANGED <<priceChanges, written>>
    /\ staleRemoved' = FALSE
    /\ UNCHANGED <<statcan, priceStreaks, geo, products, processedCount, response,
                   counted, fresh>>
    /\ UNCHANGED restVars

\* The streak calculation and its write (upsert or delete), then
\* processedCount++; or the write rejects and the catch moves on.
StreakWrite ==
    /\ pc = "changed"
    /\ LET st == CalcStreak(priceData)
       IN  \/ /\ IF HasStreak(st)
                 THEN \E t \in NewDate(now) :
                         /\ now' = t
                         /\ priceStreaks' \in FindOneAndUpdate(priceStreaks, product, geo,
                                StreakDoc(product, geo, priceData, st, t))
                 ELSE /\ priceStreaks' \in DeleteOne(priceStreaks, product, geo)
                      /\ now' = now
              /\ processedCount' = processedCount + 1
              /\ counted' = counted \cup {product}
              /\ fresh' = fresh \cup {<<geo, product>>}
              /\ UNCHANGED <<failed, outage>>
           \/ /\ IF HasStreak(st) THEN now' \in NewDate(now) ELSE now' = now
              /\ failed' = failed \cup {product}
              /\ outage' = TRUE
              /\ UNCHANGED <<priceStreaks, processedCount, counted, fresh>>
    /\ staleRemoved' = (priceStreaks' # priceStreaks /\ ~HasStreak(CalcStreak(priceData)))
    /\ NextProduct
    /\ UNCHANGED <<statcan, priceChanges, geo, products, response, written>>
    /\ UNCHANGED restVars

\* The loop is over: return processedCount, and the handler answers; the
\* locals of the call (and the history of the run) are gone.
Finish ==
    /\ pc = "loop"
    /\ allPc = "idle"
    /\ products = {}
    /\ pc' = "idle"
    /\ response' = [status |-> 200, geo |-> geo, processedCount |-> processedCount]
    /\ geo' = ""
    /\ processedCount' = 0
    /\ written' = {}
    /\ counted' = {}
    /\ failed' = {}
    /\ outage' = FALSE
    /\ staleRemoved' = FALSE
    /\ UNCHANGED <<statcan, priceChanges, priceStreaks, now, products, product,
                   priceData, fresh>>
    /\ UNCHANGED restVars

Recompute == FetchSeries \/ UpsertChange \/ StreakWrite \/ Finish

\* GET /calculate-all up to its loop: StatCan.distinct('GEO') answers, or
\* rejects and the handler answers 500.
CalculateAll ==
    /\ pc = "idle"
    /\ allPc = "idle"
    /\ \/ /\ allPc' = "regions"
          /\ geoValues' = {d.GEO : d \in statcan}
          /\ allResponse' = NoAllResponse
       \/ /\ allResponse' = [NoAllResponse EXCEPT !.status = 500]
          /\ UNCHANGED <<allPc, geoValues>>
    /\ results' = << >>
    /\ totalProcessed' = 0
    /\ writtenTotal' = 0
    /\ response' = NoResponse
    /\ staleRemoved' = FALSE
    /\ UNCHANGED <<statcan, priceChanges, priceStreaks, now, runVars, fresh, runs, yoyVars, webVars>>

\* A catch without results.push: the rejection of one region ends the loop
\* and the handler answers 500.
RegionFailedAborts(g) ==
    /\ allPc' = "idle"
    /\ allResponse' = [NoAllResponse EXCEPT !.status = 500]
    /\ results' = << >>

\* The catch of the loop over the regions: the failure is pushed.
RegionFailed(g) ==
    /\ results' = Append(results, [geo |-> g, processedCount |-> 0,
                                   success |-> FALSE, error |-> "unavailable"])
    /\ UNCHANGED <<allPc, allResponse>>

\* The loop takes region g and calls calculateAndStorePriceChanges(g):
\* StatCan.distinct answers and the run enters its loop, or rejects, the
\* function rethrows and the catch of the loop over the regions takes over.
RecomputeRegion(g) ==
    /\ allPc = "regions"
    /\ pc = "idle"
    /\ g \in geoValues
    /\ geoValues' = geoValues \ {g}
    /\ \/ /\ pc' = "loop"
          /\ geo' = g
          /\ products' = Distinct(statcan, g)
          /\ processedCount' = 0
          /\ written' = {}
          /\ counted' = {}
          /\ failed' = {}
          /\ outage' = FALSE
          /\ UNCHANGED <<product, priceData, allPc, results, allResponse>>
       \/ /\ RegionFailed(g)
          /\ UNCHANGED runVars
    /\ staleRemoved' = FALSE
    /\ UNCHANGED <<statcan, priceChanges, priceStreaks, now, fresh, response,
                   totalProcessed, writtenTotal, runs, yoyVars, webVars>>

\* calculateAndStorePriceChanges returns to the loop over the regions: the
\* result is pushed and the total grows.
RegionDone ==
    /\ pc = "loop"
    /\ allPc = "regions"
    /\ products = {}
    /\ pc' = "idle"
    /\ results' = Append(results, [geo |-> geo, processedCount |-> processedCount,
                                   success |-> TRUE, error |-> ""])
    /\ totalProcessed' = totalProcessed + processedCount
    /\ writtenTotal' = writtenTotal + Cardinality(written)
    /\ geo' = ""
    /\ processedCount' = 0
    /\ written' = {}
    /\ counted' = {}
    /\ failed' = {}
    /\ outage' = FALSE
    /\ staleRemoved' = FALSE
    /\ UNCHANGED <<statcan, priceChanges, priceStreaks, now, products, product,
                   priceData, fresh, response, allPc, geoValues, allResponse, runs, yoyVars, webVars>>

\* The loop over the regions is over: the handler answers.
AllDone ==
    /\ allPc = "regions"
    /\ pc = "idle"
    /\ geoValues = {}
    /\ allPc' = "idle"
    /\ allResponse' = [status |-> 200, totalProcessed |-> totalProcessed,
                       totalRegions |-> Cardinality({d.GEO : d \in statcan}),
                       results |-> results]
    /\ results' = << >>
    /\ totalProcessed' = 0
    /\ writtenTotal' = 0
    /\ staleRemoved' = FALSE
    /\ UNCHANGED <<statcan, priceChanges, priceStreaks, now, runVars, fresh,
                   response, geoValues, runs, yoyVars, webVars>>

\* The values the whole-system specification ingests.
SysValues == {NumberValue(0), NumberValue(1), TextValue}

\* The values the single-series specification ingests.
CalcValues == {NumberValue(n) : n \in 0..MaxPrice} \cup {NullValue, EmptyString, TextValue}

Ingest ==
    \E g \in Geos, p \in Products, v \in SysValues :
        /\ Cardinality(statcan) < MaxDocs
        /\ Import(g, p, v)

IngestSeries ==
    \E v \in CalcValues :
        /\ Len(Find(statcan, CalcGeo, CalcProduct)) < MaxLen
        /\ Import(CalcGeo, CalcProduct, v)

\* --------------------------------------------------------------------------
\* Overlapping calls of calculateAndStorePriceChanges(CalcGeo).  Each call
\* takes the steps of the sequential one; what differs is that another call
\* can act between two of them, and inside an upsert: with no unique index
\* on { product, geo } (the schemas declare none) the store answers an upsert
\* that matches no document by inserting one, and two upserts that both found
\* no match both insert.  An upsert that matches a document replaces it in
\* one step.  Documents that agree in every field are one element of the
\* collection, so two inserted documents show as two when their lastUpdated
\* differ.

\* The catch of the loop body, and every continue, for a call with locals run.
ContinueRun(run) ==
    [run EXCEPT !.pc = "loop", !.product = "", !.priceData = << >>, !.pending = {}]

\* What the steps of the overlapping calls leave alone.
seqVars == <<runVars, response, fresh, staleRemoved, allVars, yoyVars, webVars>>

\* calculateAndStorePriceChanges(CalcGeo) is called: StatCan.distinct answers,
\* or rejects and the call ends.
StartRun(r) ==
    /\ runs[r].pc = "idle"
    /\ \/ runs' = [runs EXCEPT ![r] =
                      [IdleRun EXCEPT !.pc = "loop",
                                      !.products = Distinct(statcan, CalcGeo)]]
       \/ runs' = [runs EXCEPT ![r] = IdleRun]
    /\ UNCHANGED <<statcan, priceChanges, priceStreaks, now, seqVars>>

\* One product leaves the list of call r: the series is fetched, or the
\* product is skipped, or StatCan.find rejects.
FetchSeriesOf(r) ==
    /\ runs[r].pc = "loop"
    /\ \E p \in runs[r].products :
          LET run == [runs[r] EXCEPT !.products = @ \ {p}]
              pd  == Find(statcan, CalcGeo, p)
          IN  \/ runs' = [runs EXCEPT ![r] =
                            IF Skipped(pd) THEN ContinueRun(run)
                            ELSE [run EXCEPT !.pc = "fetched", !.product = p,
                                             !.priceData = pd]]
              \/ runs' = [runs EXCEPT ![r] = ContinueRun(run)]
    /\ UNCHANGED <<statcan, priceChanges, priceStreaks, now, seqVars>>

\* PriceChange.findOneAndUpdate of call r reaches the store: a matching
\* document is replaced; with no match the store goes on to insert; or the
\* call rejects.
UpsertChangeOf(r) ==
    /\ runs[r].pc = "fetched"
    /\ \E t \in NewDate(now) :
          /\ now' = t
          /\ LET run == runs[r]
                 doc == ChangeDoc(run.product, CalcGeo, run.priceData, t)
             IN  \/ /\ ~CastError(doc)
                    /\ Matching(priceChanges, run.product, CalcGeo) # {}
                    /\ priceChanges' \in
                          FindOneAndUpdate(priceChanges, run.product, CalcGeo, doc)
                    /\ runs' = [runs EXCEPT ![r].pc = "changed"]
                 \/ /\ ~CastError(doc)
                    /\ Matching(priceChanges, run.product, CalcGeo) = {}
                    /\ runs' = [runs EXCEPT ![r].pc = "insertChange",
                                            ![r].pending = {doc}]
                    /\ UNCHANGED priceChanges
                 \/ /\ runs' = [runs EXCEPT ![r] = ContinueRun(run)]
                    /\ UNCHANGED priceChanges
    /\ UNCHANGED <<statcan, priceStreaks, seqVars>>

\* The insert of the change upsert of call r.
InsertChangeOf(r) ==
    /\ runs[r].pc = "insertChange"
    /\ priceChanges' = priceChanges \cup runs[r].pending
    /\ runs' = [runs EXCEPT ![r].pc = "changed", ![r].pending = {}]
    /\ UNCHANGED <<statcan, priceStreaks, now, seqVars>>

\* The call r has written the streak of its product (or deleted it):
\* processedCount++ and on to the next product.
CountedRun(run) ==
    [ContinueRun(run) EXCEPT !.processedCount = @ + 1, !.last = run.priceData]

\* The streak calculation of call r and its write: the delete, or the upsert
\* as for the change record; or the write rejects.
StreakWriteOf(r) ==
    /\ runs[r].pc = "changed"
    /\ LET run == runs[r]
           st  == CalcStreak(run.priceData)
       IN  \/ /\ ~HasStreak(st)
              /\ priceStreaks' \in DeleteOne(priceStreaks, run.product, CalcGeo)
              /\ runs' = [runs EXCEPT ![r] = CountedRun(run)]
              /\ now' = now
           \/ /\ HasStreak(st)
              /\ \E t \in NewDate(now) :
                    LET doc == StreakDoc(run.product, CalcGeo, run.priceData, st, t)
                    IN  /\ now' = t
                        /\ IF Matching(priceStreaks, run.product, CalcGeo) # {}
                           THEN /\ priceStreaks' \in
                                      FindOneAndUpdate(priceStreaks, run.product,
                                                       CalcGeo, doc)
                                /\ runs' = [runs EXCEPT ![r] = CountedRun(run)]
                           ELSE /\ runs' = [runs EXCEPT ![r].pc = "insertStreak",
                                                        ![r].pending = {doc}]
                                /\ UNCHANGED priceStreaks
           \/ /\ runs' = [runs EXCEPT ![r] = ContinueRun(run)]
              /\ IF HasStreak(st) THEN now' \in NewDate(now) ELSE now' = now
              /\ UNCHANGED priceStreaks
    /\ UNCHANGED <<statcan, priceChanges, seqVars>>

\* The insert of the streak upsert of call r, then processedCount++.
InsertStreakOf(r) ==
    /\ runs[r].pc = "insertStreak"
    /\ priceStreaks' = priceStreaks \cup runs[r].pending
    /\ runs' = [runs EXCEPT ![r] = CountedRun(runs[r])]
    /\ UNCHANGED <<statcan, priceChanges, now, seqVars>>

\* The loop of call r is over: it returns its processedCount.
FinishRun(r) ==
    /\ runs[r].pc = "loop"
    /\ runs[r].products = {}
    /\ runs' = [runs EXCEPT ![r].pc = "idle"]
    /\ UNCHANGED <<statcan, priceChanges, priceStreaks, now, seqVars>>

\* The values the specification of the overlapping calls ingests.
ConcValues == {NumberValue(0), NumberValue(1)}

IngestConc ==
    \E v \in ConcValues :
        /\ Len(Find(statcan, CalcGeo, CalcProduct)) < MaxLen
        /\ Import(CalcGeo, CalcProduct, v)

NextConc ==
    \/ IngestConc
    \/ \E r \in Runs :
          \/ StartRun(r)
          \/ FetchSeriesOf(r)
          \/ UpsertChangeOf(r)
          \/ InsertChangeOf(r)
          \/ StreakWriteOf(r)
          \/ InsertStreakOf(r)
          \/ FinishRun(r)

\* --------------------------------------------------------------------------
\* GET /all-price-changes?geo=g

\* item.currentPrice ?? 0
Coalesce(x) == IF IsNull(x) THEN Fin(0) ELSE x

\* A percentage computed without the test for a zero year-ago price.
YearAgoPercentUnguarded(currentPrice, yearAgoPrice) ==
    JsMulInt(JsDiv(JsSub(Coalesce(currentPrice), yearAgoPrice), yearAgoPrice), 100)

\* yearAgoPrice === 0 ? null : ((currentPrice ?? 0) - yearAgoPrice) / yearAgoPrice * 100
YearAgoPercent(currentPrice, yearAgoPrice) ==
    IF yearAgoPrice = Fin(0) THEN JsNull
    ELSE JsMulInt(JsDiv(JsSub(Coalesce(currentPrice), yearAgoPrice), yearAgoPrice), 100)

\* A difference computed without the test for a missing year-ago price
\* (null counts as 0 in a subtraction).
YearAgoChangeUnguarded(currentPrice, yearAgoPrice) ==
    JsSub(Coalesce(currentPrice), Coalesce(yearAgoPrice))

\* yearAgoPrice !== null ? (currentPrice ?? 0) - yearAgoPrice : null
YearAgoChange(currentPrice, yearAgoPrice) ==
    IF ~IsNull(yearAgoPrice) THEN JsSub(Coalesce(currentPrice), yearAgoPrice)
    ELSE JsNull

\* StatCan.findOne({ GEO, Products, REF_DATE }): the documents it can return,
\* as a set; the empty set is the answer null.
FindOne(coll, g, p, period) ==
    LET m == {d \in coll : d.GEO = g /\ d.Products = p /\ d.REF_DATE = period}
    IN  IF m = {} THEN {{}} ELSE {{d} : d \in m}

\* The object the map callback returns for a stored change record, given the
\* answer of findOne (a set of at most one document).
Enrich(item, found) ==
    LET numeric      == found # {} /\ \A o \in found : o.VALUE.kind = "number"
        yearAgoPrice == IF item.currentDate # 0 /\ numeric
                        THEN Fin((CHOOSE o \in found : TRUE).VALUE.num)
                        ELSE JsNull
        yearAgoPercent == IF item.currentDate # 0 /\ numeric
                          THEN YearAgoPercent(item.currentPrice, yearAgoPrice)
                          ELSE JsNull
    IN  [product |-> item.product, geo |-> item.geo,
         currentPrice |-> Coalesce(item.currentPrice),
         previousPrice |-> item.previousPrice,
         change |-> item.change, changePercent |-> item.changePercent,
         currentDate |-> item.currentDate, previousDate |-> item.previousDate,
         yearAgoPrice |-> yearAgoPrice,
         yearAgoChange |-> YearAgoChange(item.currentPrice, yearAgoPrice),
         yearAgoPercent |-> yearAgoPercent]

\* The filter the callback sends to StatCan.findOne for a stored record.
Lookup(item) ==
    [product |-> item.product, currentDate |-> item.currentDate,
     REF_DATE |-> YearAgoDate(item.currentDate, tz)]

\* The handler: PriceChange.find({ geo }), one findOne per record, and the
\* answer; or a query rejects and the answer is 500.  The observations do not
\* change while it runs.
AllPriceChanges(g) ==
    /\ \/ \E answers \in [{d \in priceChanges : d.geo = g} -> SUBSET statcan] :
             /\ \A item \in DOMAIN answers :
                   answers[item] \in FindOne(statcan, g, item.product,
                                             YearAgoDate(item.currentDate, tz))
             /\ yoyResponse' =
                   [status |-> 200, geo |-> g,
                    products |-> {Enrich(item, answers[item]) : item \in DOMAIN answers},
                    lookups |-> {Lookup(item) : item \in DOMAIN answers}]
       \/ yoyResponse' = [NoYoYResponse EXCEPT !.status = 500, !.geo = g]
    /\ UNCHANGED <<statcan, priceChanges, priceStreaks, now, runVars, response,
                   fresh, staleRemoved, allVars, runs, tz, webVars>>

\* ------------------------------------------------------------ read handlers
\* A parameter the request does not carry (undefined in JavaScript).
Absent == "<absent>"

\* A check that lets every value through.
TruthyAlways(v) == TRUE

\* if (geo): undefined and the empty string are falsy, a name is truthy.
Truthy(v) == v # Absent /\ v # ""

GeoRequired == "Geographic location (geo) is required"

\* limit is Absent-like when the query string has none, else a number >= 0.
NoLimit == -1

\* No date in the query string.
NoDate == 0

\* const { geo, limit = 3 } = req.query
DefaultLimit(l) == IF l = NoLimit THEN 3 ELSE l

\* a < b for two numbers that are finite or infinite.
JsLess(a, b) == a.num * b.den < b.num * a.den

\* The orders in which a cursor can deliver a set of documents.
Orderings(S) ==
    {s \in [1..Cardinality(S) -> S] : \A i, j \in 1..Cardinality(S) : i # j => s[i] # s[j]}

\* .sort({ changePercent: dir }): documents with equal keys come in the
\* order the store has them in.
SortByChangePercent(S, dir) ==
    {s \in Orderings(S) :
        \A i, j \in 1..Cardinality(S) :
           i < j => IF dir = -1
                    THEN ~JsLess(s[i].changePercent, s[j].changePercent)
                    ELSE ~JsLess(s[j].changePercent, s[i].changePercent)}

\* .sort({ streakLength: -1 })
SortByStreakLength(S) ==
    {s \in Orderings(S) :
        \A i, j \in 1..Cardinality(S) : i < j => s[i].streakLength >= s[j].streakLength}

\* .limit(n): MongoDB takes a limit of 0 as no limit.
Limit(s, n) == IF n = 0 \/ n >= Len(s) THEN s ELSE SubSeq(s, 1, n)

\* What the read handlers leave alone.
readFrame == <<statcan, priceChanges, priceStreaks, now, runVars, response, fresh,
               allVars, runs, yoyVars, shouldConnectMongo, readyState, gate>>

\* return res.status(400).json({ error: 'Geographic location (geo) is required' })
BadRequest(route, g) ==
    /\ reply.stage = "idle"
    /\ reply' = [NoReply EXCEPT !.route = route, !.geo = g, !.status = 400,
                                !.error = GeoRequired]
    /\ staleRemoved' = FALSE
    /\ UNCHANGED readFrame

\* GET /price-changes?geo=g&limit=l up to the answer of its first query (the
\* gainers), or to the 400, or to the 500 of a rejected query.
GetPriceChanges(g, l) ==
    /\ reply.stage = "idle"
    /\ IF ~Truthy(g)
       THEN reply' = [NoReply EXCEPT !.route = "price-changes", !.geo = g,
                                     !.status = 400, !.error = GeoRequired]
       ELSE \/ \E s \in SortByChangePercent(
                          {d \in priceChanges : d.geo = g /\ JsGtZero(d.changePercent)}, -1) :
                  reply' = [NoReply EXCEPT !.route = "price-changes", !.geo = g,
                                           !.limit = DefaultLimit(l),
                                           !.stage = "losers",
                                           !.gainers = Limit(s, DefaultLimit(l)),
                                           !.queries = 1]
            \/ reply' = [NoReply EXCEPT !.route = "price-changes", !.geo = g,
                                        !.status = 500,
                                        !.error = "Failed to fetch price changes",
                                        !.queries = 1]
    /\ staleRemoved' = FALSE
    /\ UNCHANGED readFrame

\* The second query of GET /price-changes (the losers) and the answer.
PriceChangesLosers ==
    /\ reply.stage = "losers"
    /\ \/ \E s \in SortByChangePercent(
                     {d \in priceChanges : d.geo = reply.geo /\ JsLtZero(d.changePercent)}, 1) :
             reply' = [reply EXCEPT !.stage = "idle", !.status = 200,
                                    !.losers = Limit(s, reply.limit),
                                    !.queries = 2]
       \/ reply' = [NoReply EXCEPT !.route = "price-changes", !.geo = reply.geo,
                                   !.status = 500,
                                   !.error = "Failed to fetch price changes",
                                   !.queries = 2]
    /\ staleRemoved' = FALSE
    /\ UNCHANGED readFrame

\* GET /streaks?geo=g&limit=l
GetStreaks(g, l) ==
    /\ reply.stage = "idle"
    /\ IF ~Truthy(g)
       THEN reply' = [NoReply EXCEPT !.route = "streaks", !.geo = g,
                                     !.status = 400, !.error = GeoRequired]
       ELSE \/ \E s \in SortByStreakLength({d \in priceStreaks : d.geo = g}) :
                  reply' = [NoReply EXCEPT !.route = "streaks", !.geo = g,
                                           !.limit = DefaultLimit(l),
                                           !.status = 200,
                                           !.results = Limit(s, DefaultLimit(l)),
                                           !.queries = 1]
            \/ reply' = [NoReply EXCEPT !.route = "streaks", !.geo = g,
                                        !.status = 500,
                                        !.error = "Failed to fetch streaks",
                                        !.queries = 1]
    /\ staleRemoved' = FALSE
    /\ UNCHANGED readFrame

\* The documents that match the query object GET / builds.
RawQuery(date, g, p) ==
    {d \in statcan : /\ date # NoDate => d.REF_DATE = date
                     /\ Truthy(g) => d.GEO = g
                     /\ Truthy(p) => d.Products = p}

\* GET /?date=&geo=&product=&limit=: the sorted find when geo and product are
\* given without a date, the plain find otherwise; .limit(Number(limit)) if
\* (limit), and a text limit is not drawn.  An empty answer is followed by the
\* two countDocuments of the debug output.
GetRaw(date, g, p, l) ==
    /\ reply.stage = "idle"
    /\ \/ \E s \in (IF Truthy(g) /\ Truthy(p) /\ date = NoDate
                    THEN {SortByRefDate(RawQuery(date, g, p))}
                    ELSE Orderings(RawQuery(date, g, p))) :
             LET found == IF l # NoLimit THEN Limit(s, l) ELSE s
             IN  reply' = [NoReply EXCEPT !.route = "/", !.geo = g, !.product = p,
                                          !.date = date, !.limit = l,
                                          !.status = 200, !.results = found,
                                          !.queries = IF found = << >> THEN 3 ELSE 1]
       \/ reply' = [NoReply EXCEPT !.route = "/", !.geo = g, !.product = p,
                                   !.date = date, !.limit = l, !.status = 500,
                                   !.error = "Database query failed",
                                   !.queries = 1]
    /\ staleRemoved' = FALSE
    /\ UNCHANGED readFrame

\* POST /calculate-changes with the geo of the body, which may be missing.
PostCalculateChanges(g) ==
    IF Truthy(g) THEN CalculateChanges(g) ELSE BadRequest("calculate-changes", g)

\* GET /all-price-changes with the geo of the query, which may be missing.
GetAllPriceChanges(g) ==
    IF Truthy(g) THEN AllPriceChanges(g) ELSE BadRequest("all-price-changes", g)

\* The values the specification of GET /calculate-all ingests.
AllValues == {NumberValue(0), NumberValue(1)}

IngestAll ==
    \E g \in Geos, p \in Products, v \in AllValues :
        /\ Cardinality(statcan) < MaxDocs
        /\ Import(g, p, v)

Next ==
    \/ Ingest
    \/ \E g \in Geos : CalculateChanges(g)
    \/ Recompute

Spec == Init /\ [][Next]_vars

NextCalc ==
    \/ IngestSeries
    \/ CalculateChanges(CalcGeo)
    \/ Recompute

SpecCalc == Init /\ [][NextCalc]_vars

NextAll ==
    \/ IngestAll
    \/ CalculateAll
    \/ \E g \in Geos : RecomputeRegion(g)
    \/ FetchSeries
    \/ UpsertChange
    \/ StreakWrite
    \/ RegionDone
    \/ AllDone

SpecAll == Init /\ [][NextAll]_vars

SpecConc == Init /\ [][NextConc]_vars

\* --------------------------------------------------------------------------
\* The specification of the recomputes of two regions that both hold a
\* series long enough to be written: one product, observed in every region.

\* The values it ingests: any of two prices in one region, a price that rises
\* every month in the others.
FrameValues(g) ==
    IF g = CalcGeo THEN {NumberValue(0), NumberValue(1)}
    ELSE {NumberValue(Len(Find(statcan, g, CalcProduct)))}

IngestFrame ==
    \E g \in Geos :
       \E v \in FrameValues(g) :
          /\ Len(Find(statcan, g, CalcProduct)) < MaxLen
          /\ Import(g, CalcProduct, v)

NextFrame ==
    \/ IngestFrame
    \/ \E g \in Geos : CalculateChanges(g)
    \/ Recompute

SpecFrame == Init /\ [][NextFrame]_vars

\* --------------------------------------------------------------------------
\* The read handlers over a store that a recompute has filled: two
\* observations of up to three (region, product) pairs were imported and both
\* regions recomputed at clock 0; CalcProduct of CalcGeo may have taken a
\* third observation since, which no recompute has seen yet.  Requests are
\* then read while CalcGeo is recomputed.
ReadSeries(g, p) ==
    IF g = CalcGeo /\ p = CalcProduct
    THEN {<< >>} \cup {<<a, b>> : a, b \in 0..MaxPrice}
                 \cup {<<a, b, c>> : a, b \in 0..MaxPrice, c \in {0, 1}}
    ELSE IF g = CalcGeo THEN {<< >>, <<1, 2>>, <<2, 1>>}
    ELSE IF p = CalcProduct THEN {<<1, 2>>}
    ELSE {<< >>}

RECURSIVE ReadDocs(_, _, _, _)
\* The observations of (g, p) with the prices vals, from the period first on.
ReadDocs(g, p, vals, first) ==
    IF vals = << >> THEN {}
    ELSE {[GEO |-> g, Products |-> p, REF_DATE |-> first,
           VALUE |-> NumberValue(Head(vals))]}
         \cup ReadDocs(g, p, Tail(vals), NextPeriod(first))

ReadKeys == Geos \X Products

RECURSIVE ReadStores(_)
\* The stores that hold one of its series for each of the keys.
ReadStores(keys) ==
    IF keys = {} THEN {{}}
    ELSE LET k == CHOOSE x \in keys : TRUE
         IN  {ReadDocs(k[1], k[2], v, StartPeriod) \cup rest :
                 v \in ReadSeries(k[1], k[2]), rest \in ReadStores(keys \ {k})}

\* The series of a key as the recompute at clock 0 saw it.
Recomputed(coll, k) ==
    LET pd == Find(coll, k[1], k[2])
    IN  IF Len(pd) > 2 THEN SubSeq(pd, 1, 2) ELSE pd

\* The store, the clock and the locals of the handlers in that state.
InitReadStore ==
    /\ statcan \in ReadStores(ReadKeys)
    /\ LET done == {k \in ReadKeys : ~Skipped(Recomputed(statcan, k))}
       IN  /\ priceChanges =
                 {ChangeDoc(k[2], k[1], Recomputed(statcan, k), 0) : k \in done}
           /\ priceStreaks =
                 {StreakDoc(k[2], k[1], Recomputed(statcan, k),
                            CalcStreak(Recomputed(statcan, k)), 0) :
                    k \in {d \in done : HasStreak(CalcStreak(Recomputed(statcan, d)))}}
           /\ fresh = {k \in done : Len(Find(statcan, k[1], k[2])) = 2}
    /\ now = 0
    /\ pc = "idle"
    /\ geo = ""
    /\ products = {}
    /\ product = ""
    /\ priceData = << >>
    /\ processedCount = 0
    /\ response = NoResponse
    /\ written = {}
    /\ counted = {}
    /\ staleRemoved = FALSE
    /\ failed = {}
    /\ outage = FALSE
    /\ allPc = "idle"
    /\ geoValues = {}
    /\ results = << >>
    /\ totalProcessed = 0
    /\ allResponse = NoAllResponse
    /\ writtenTotal = 0
    /\ runs = [r \in Runs |-> IdleRun]
    /\ tz = 0
    /\ yoyResponse = NoYoYResponse

InitRead ==
    /\ InitReadStore
    /\ reply = NoReply
    /\ shouldConnectMongo = TRUE
    /\ readyState = 1
    /\ gate = NoGate

\* The geo a request can carry in place of a region: none, or an empty one.
NoGeos == {Absent, ""}

\* The limits a request carries.
Limits == {NoLimit, 0, 1}

\* The requests a client sends to the read handlers, one at a time, and the
\* requests that miss their geo.
NextRead ==
    \/ \E g \in NoGeos : PostCalculateChanges(g)
    \/ \E g \in Geos \cup NoGeos, l \in Limits : GetPriceChanges(g, l)
    \/ PriceChangesLosers
    \/ \E g \in Geos \cup NoGeos, l \in Limits : GetStreaks(g, l)
    \/ \E g \in Geos, l \in Limits :
          \E date \in {NoDate, StartPeriod} : GetRaw(date, g, CalcProduct, l)
    \/ \E g \in NoGeos : GetAllPriceChanges(g)

SpecRead == InitRead /\ [][NextRead]_vars

\* GET /price-changes while CalcGeo is recomputed: a recompute request
\* arrives while a read waits for its second query, and its steps interleave
\* with that query.  Reads arrive between recomputes.
NextTop ==
    \/ reply.stage = "losers" /\ response = NoResponse /\ PostCalculateChanges(CalcGeo)
    \/ Recompute
    \/ \E g \in Geos, l \in Limits : pc = "idle" /\ GetPriceChanges(g, l)
    \/ PriceChangesLosers

SpecTop == InitRead /\ [][NextTop]_vars

\* --------------------------------------------------------------------------
\* The readiness middleware of app.ts in front of the router of /api/statcan.
\* mongoose.connection.readyState: 0 disconnected, 1 connected, 2 connecting,
\* 3 disconnecting, 99 uninitialized.
ReadyStates == {0, 1, 2, 3, 99}

\* The process starts: mongoose.connect has been called if the connection is
\* enabled, and the store is as the read specification finds it.
InitGate ==
    /\ InitReadStore
    /\ reply = NoReply
    /\ shouldConnectMongo \in BOOLEAN
    /\ readyState = IF shouldConnectMongo THEN 2 ELSE 0
    /\ gate = NoGate

\* The driver moves the connection to another state: it connects, fails,
\* loses the server, reconnects or closes.
ConnectionChanges ==
    /\ shouldConnectMongo
    /\ readyState' \in ReadyStates \ {readyState}
    /\ UNCHANGED <<statcan, priceChanges, priceStreaks, now, runVars, response, fresh,
                   staleRemoved, allVars, runs, yoyVars, reply, shouldConnectMongo, gate>>

\* res.status(503).json({ error })
Answer503(error) ==
    /\ gate' = [status |-> 503, error |-> error, readyState |-> readyState]
    /\ UNCHANGED <<statcan, priceChanges, priceStreaks, now, runVars, response, fresh,
                   staleRemoved, allVars, runs, yoyVars, reply, shouldConnectMongo,
                   readyState>>

\* next(): the request reaches the router, here the handler of GET /streaks.
StatcanRouter ==
    \E g \in Geos \cup {Absent}, l \in {NoLimit, 1} : GetStreaks(g, l)

\* A middleware that also lets a request through while the connection is
\* being established.
StatcanRequestWhileConnecting ==
    IF ~shouldConnectMongo THEN StatcanRouter
    ELSE IF readyState \in {1, 2} THEN StatcanRouter
    ELSE Answer503("Database not connected")

\* A request to /api/statcan passes the middleware.  (The exemption of
\* req.path === '/' in the later revision is for the root of the application,
\* which no route of /api/statcan has.)
StatcanRequest ==
    IF ~shouldConnectMongo THEN StatcanRouter
    ELSE IF readyState = 1 THEN StatcanRouter
    ELSE IF readyState = 2 THEN Answer503("Database connection in progress")
    ELSE Answer503("Database not connected")

NextGate ==
    \/ ConnectionChanges
    \/ StatcanRequest

SpecGate == InitGate /\ [][NextGate]_vars

\* --------------------------------------------------------------------------
\* The specification of GET /all-price-changes: it starts from a store that
\* imports and a recompute have filled, for one product of one region: the
\* observations of the current and the previous period, the change record a
\* run wrote from them, and possibly observations a year back.

Years == {2023, 2024, 2025}

Months == 1..12

\* Offsets of the server's zone: west of Greenwich, UTC, east of Greenwich.
TimeZones == {-5, 0, 9}

\* Prices in units of 0.50: 0, 2.50 and 3.00.
YoYPrices == {0, 5, 6}

YoYValues == {NumberValue(n) : n \in YoYPrices} \cup {NullValue, TextValue}

Observation(period, v) ==
    [GEO |-> CalcGeo, Products |-> CalcProduct, REF_DATE |-> period, VALUE |-> v]

InitYoY ==
    /\ \E y \in Years, m \in Months, c \in YoYPrices :
          LET cur    == y * 100 + m
              recent == {Observation(PrevPeriod(cur), NumberValue(5)),
                         Observation(cur, NumberValue(c))}
          IN  /\ \E yearAgo \in {{}} \cup {{Observation(cur - 100, v)} : v \in YoYValues},
                       before \in {{}, {Observation(PrevPeriod(cur - 100), NumberValue(5))}} :
                    statcan = recent \cup yearAgo \cup before
              /\ priceChanges =
                    {ChangeDoc(CalcProduct, CalcGeo, SortByRefDate(recent), 0)}
    /\ tz \in TimeZones
    /\ priceStreaks = {}
    /\ now = 0
    /\ pc = "idle"
    /\ geo = ""
    /\ products = {}
    /\ product = ""
    /\ priceData = << >>
    /\ processedCount = 0
    /\ response = NoResponse
    /\ written = {}
    /\ counted = {}
    /\ fresh = {}
    /\ staleRemoved = FALSE
    /\ failed = {}
    /\ outage = FALSE
    /\ allPc = "idle"
    /\ geoValues = {}
    /\ results = << >>
    /\ totalProcessed = 0
    /\ allResponse = NoAllResponse
    /\ writtenTotal = 0
    /\ runs = [r \in Runs |-> IdleRun]
    /\ yoyResponse = NoYoYResponse
    /\ reply = NoReply
    /\ shouldConnectMongo = TRUE
    /\ readyState = 1
    /\ gate = NoGate

NextYoY == \E g \in Geos : AllPriceChanges(g)

SpecYoY == InitYoY /\ [][NextYoY]_vars

\* ------------------------------------------------------- steps and reference
\* The step in which PriceChange.findOneAndUpdate wrote the record.
ChangeWritten == pc = "fetched" /\ pc' = "changed"

\* The step in which the streak write succeeded and the product was counted.
ProductCounted == pc = "changed" /\ processedCount' = processedCount + 1

\* The step in which the recompute returned.
Returned == pc = "loop" /\ pc' = "idle"

\* Steps of GET /calculate-all: a region is taken and its call rejects; the
\* handler answers after its loop.
RegionRejected == allPc = "regions" /\ pc = "idle" /\ pc' = "idle" /\ geoValues' # geoValues

AllReturned == allPc = "regions" /\ allPc' = "idle"

\* The regions known to the store.
KnownRegions == {d.GEO : d \in statcan}

RECURSIVE SumCounts(_)
SumCounts(rs) ==
    IF rs = << >> THEN 0
    ELSE rs[1].processedCount + SumCounts(Tail(rs))

IsNumber(o) == o.VALUE.kind = "number"

AllNumeric(pd) == \A i \in 1..Len(pd) : IsNumber(pd[i])

\* The k-th successive difference counted backward from the most recent one.
RefDiff(pd, k) == pd[Len(pd) - k + 1].VALUE.num - pd[Len(pd) - k].VALUE.num

\* How many successive differences, counted backward from the most recent
\* one, have the strict sign of the most recent one (0 when that is zero).
RefRun(pd) ==
    LET s == Sign(RefDiff(pd, 1))
    IN  IF s = 0 THEN 0
        ELSE CHOOSE k \in 1..(Len(pd) - 1) :
                /\ \A j \in 1..k : Sign(RefDiff(pd, j)) = s
                /\ k = Len(pd) - 1 \/ Sign(RefDiff(pd, k + 1)) # s

RefDirection(pd) == IF RefDiff(pd, 1) > 0 THEN "increase" ELSE "decrease"

StrictlyIncreasing(pd) == \A i \in 2..Len(pd) : pd[i].VALUE.num > pd[i - 1].VALUE.num

\* The series stored for a key, oldest first.
Series(g, p) == Find(statcan, g, p)

Values(pd) == [i \in 1..Len(pd) |-> pd[i].VALUE.num]

\* ------------------------------------------------------------------ claims

\* C1: for a series of at least 2 numeric observations, the streak the
\* recompute stores is the reference: none when the most recent difference
\* is zero, otherwise the direction of that difference and a length of 1 plus
\* the number of consecutive same-sign differences counted backward from it;
\* n strictly increasing observations give Increase of length n.
C1_StreakIsReference ==
    [][(ProductCounted /\ AllNumeric(priceData)) =>
         LET stored == Matching(priceStreaks', product, geo)
         IN  /\ RefRun(priceData) = 0 => stored = {}
             /\ RefRun(priceData) > 0 =>
                   \E d \in stored :
                      /\ stored = {d}
                      /\ d.streakLength = RefRun(priceData) + 1
                      /\ d.streakType = RefDirection(priceData)
             /\ StrictlyIncreasing(priceData) =>
                   \E d \in stored :
                      /\ d.streakLength = Len(priceData)
                      /\ d.streakType = "increase"]_vars

\* C1 witness: a run has stored the streak of a strictly increasing series of
\* three numeric observations.
C1_Witness ==
    /\ <<CalcGeo, CalcProduct>> \in fresh
    /\ Values(Series(CalcGeo, CalcProduct)) = <<0, 1, 2>>
    /\ AllNumeric(Series(CalcGeo, CalcProduct))
    /\ \E d \in priceStreaks : d.streakLength = 3 /\ d.streakType = "increase"

\* The most recent step of a numeric series reverses the step before it.
ReversalAtLastStep(pd) ==
    /\ Len(pd) >= 3
    /\ AllNumeric(pd)
    /\ RefDiff(pd, 1) # 0
    /\ Sign(RefDiff(pd, 2)) = -Sign(RefDiff(pd, 1))

\* C2 as stated: a series whose most recent step reverses the step before it
\* has no active streak, and no StreakRecord is stored for its key after the
\* recompute.
C2_ReversalGivesNoStreak ==
    [][(ProductCounted /\ ReversalAtLastStep(priceData)) =>
         Matching(priceStreaks', product, geo) = {}]_vars

\* C2 amended: a series whose most recent step reverses the step before it
\* has an active streak of length 2 in the direction of the most recent step,
\* and the recompute stores that StreakRecord.
C2_ReversalGivesStreakOfTwo ==
    [][(ProductCounted /\ ReversalAtLastStep(priceData)) =>
         \E d \in Matching(priceStreaks', product, geo) :
            /\ Matching(priceStreaks', product, geo) = {d}
            /\ d.streakLength = 2
            /\ d.streakType = RefDirection(priceData)
            /\ d.data = SubSeq(priceData, Len(priceData) - 1, Len(priceData))]_vars

\* C2 witness: the series of scenario A (up, then down to a value between the
\* first two) has been recomputed and its key holds a streak of 2 decreases.
C2_Witness ==
    /\ <<CalcGeo, CalcProduct>> \in fresh
    /\ AllNumeric(Series(CalcGeo, CalcProduct))
    /\ Values(Series(CalcGeo, CalcProduct)) = <<0, 2, 1>>
    /\ \E d \in Matching(priceStreaks, CalcProduct, CalcGeo) :
          d.streakLength = 2 /\ d.streakType = "decrease"

\* C3: the ChangeRecord the recompute stores takes its current price and date
\* from the last element of the series and its previous price and date from
\* the second-to-last, and its change is current price minus previous price.
C3_ChangeFromLastTwo ==
    [][ChangeWritten =>
         LET n == Len(priceData)
         IN  \E d \in Matching(priceChanges', product, geo) :
                /\ Matching(priceChanges', product, geo) = {d}
                /\ d.currentDate = priceData[n].REF_DATE
                /\ d.previousDate = priceData[n - 1].REF_DATE
                /\ IsNumber(priceData[n]) => d.currentPrice = Fin(priceData[n].VALUE.num)
                /\ IsNumber(priceData[n - 1]) =>
                      d.previousPrice = Fin(priceData[n - 1].VALUE.num)
                /\ d.change.den = 1
                /\ d.change.num = d.currentPrice.num - d.previousPrice.num]_vars

\* C3 witness: the record of a series of three numeric observations whose
\* oldest value differs from the other two has been written.
C3_Witness ==
    /\ pc = "changed"
    /\ AllNumeric(priceData)
    /\ Values(priceData) = <<0, 1, 2>>
    /\ \E d \in Matching(priceChanges, product, geo) :
          d.currentDate = priceData[3].REF_DATE /\ d.change = Fin(1)

\* C4 as stated: in every stored ChangeRecord changePercent is null exactly
\* when previousPrice is 0, and is change / previousPrice * 100 otherwise.
C4_PercentNullIffPreviousZero ==
    \A d \in priceChanges :
        /\ IsNull(d.changePercent) <=> d.previousPrice.num = 0
        /\ d.previousPrice.num # 0 =>
              /\ IsFinite(d.changePercent)
              /\ d.changePercent.num * d.previousPrice.num
                    = 100 * d.change.num * d.changePercent.den

\* C5 as stated: the processedCount a recompute returns is the number of
\* products whose ChangeRecord upsert succeeded during the run.
C5_CountIsChangesWritten ==
    [][Returned => response'.processedCount = Cardinality(written)]_vars

\* A stored record without its timestamp.
StripTime(d) == [d EXCEPT !.lastUpdated = 0]

\* Two sets of stored records that agree in number and in every field but
\* lastUpdated.
SameButTime(A, B) ==
    /\ Cardinality(A) = Cardinality(B)
    /\ {StripTime(d) : d \in A} = {StripTime(d) : d \in B}

\* C6 as stated: once a recompute has processed a key, reprocessing it over
\* unchanged observations leaves its stored ChangeRecord and StreakRecord
\* identical in every field, the timestamp included.
C6_RerunLeavesRecordsIdentical ==
    [][\A k \in fresh \cap fresh' :
          /\ Matching(priceChanges', k[2], k[1]) = Matching(priceChanges, k[2], k[1])
          /\ Matching(priceStreaks', k[2], k[1]) = Matching(priceStreaks, k[2], k[1])]_vars

\* C6 amended: once a recompute has processed a key, reprocessing it over
\* unchanged observations leaves its stored ChangeRecord and StreakRecord
\* identical in every field except lastUpdated, and adds or removes none.
C6_RerunLeavesRecordsSameButTime ==
    [][\A k \in fresh \cap fresh' :
          /\ SameButTime(Matching(priceChanges', k[2], k[1]),
                         Matching(priceChanges, k[2], k[1]))
          /\ SameButTime(Matching(priceStreaks', k[2], k[1]),
                         Matching(priceStreaks, k[2], k[1]))]_vars

\* C6 witness: a second run over unchanged observations has rewritten the
\* ChangeRecord of a key an earlier run processed: it is newer than the
\* StreakRecord of that run.
C6_Witness ==
    /\ pc = "changed"
    /\ <<geo, product>> \in fresh
    /\ \E c \in Matching(priceChanges, product, geo) :
          \E r \in Matching(priceStreaks, product, geo) :
             c.lastUpdated > r.lastUpdated

\* The most recent difference of the series is a zero difference of numbers.
FlatLastStep(pd) ==
    /\ Len(pd) >= 2
    /\ IsNumber(pd[Len(pd)])
    /\ IsNumber(pd[Len(pd) - 1])
    /\ RefDiff(pd, 1) = 0

RefActive(pd) ==
    /\ Len(pd) >= 2
    /\ IsNumber(pd[Len(pd)])
    /\ IsNumber(pd[Len(pd) - 1])
    /\ RefDiff(pd, 1) # 0

\* C8 as stated: when a recompute of a region returns, a StreakRecord is
\* stored for a product of the region only if the product's series has an
\* active streak; skipped products included.
C8_StreakOnlyWhileActive ==
    [][Returned =>
         \A p \in Products :
            Matching(priceStreaks', p, geo) # {} => RefActive(Series(geo, p))]_vars

\* The series has fewer than 2 observations, or its current or previous
\* value is not a number.
NotComputable(pd) ==
    \/ Len(pd) < 2
    \/ ~IsNumber(pd[Len(pd)])
    \/ ~IsNumber(pd[Len(pd) - 1])

\* C9 as stated: for a product with fewer than 2 observations or a current or
\* previous value that is not a number, the recompute writes and deletes no
\* record, leaves the stored records as they were and does not count it.
C9_UncomputableProductIsLeftAlone ==
    [][(pc \in {"fetched", "changed"} /\ NotComputable(priceData)) =>
         /\ priceChanges' = priceChanges
         /\ priceStreaks' = priceStreaks
         /\ processedCount' = processedCount]_vars

\* C10 as stated: no ChangeRecord is stored whose current or previous
\* observation holds a value that is not a number (null, an empty string,
\* text), with that value replaced by a number.
C10_NoRecordFromNonNumber ==
    \A d \in priceChanges :
        \A o \in statcan :
            (/\ o.GEO = d.geo
             /\ o.Products = d.product
             /\ o.REF_DATE \in {d.currentDate, d.previousDate}) => IsNumber(o)

\* --------------------------------------------------------------------------
\* C11: when the iteration of one product throws (at the series fetch, the
\* change upsert, the streak upsert or the streak delete) the run stays in
\* its loop with every product it has not visited yet still pending, no
\* response is sent by that step, products leave the pending set only by
\* being visited, and the run returns only once no product is pending, with
\* status 200 and its processedCount.
C11_ProductFailureIsCaught ==
    [][/\ (failed' \ failed # {}) =>
            /\ pc' = "loop"
            /\ geo' = geo
            /\ products' = products \ failed'
            /\ response' = response
       /\ (pc # "idle" /\ products' # products) =>
            /\ pc = "loop"
            /\ \E p \in products :
                  /\ products' = products \ {p}
                  /\ (product' = p \/ pc' = "loop")
       /\ Returned =>
            /\ products = {}
            /\ response' = [status |-> 200, geo |-> geo,
                            processedCount |-> processedCount]]_vars

\* After the iteration of one product threw, the run has fetched the series of
\* another product and written its change record.
C11_Witness ==
    /\ failed # {}
    /\ pc = "changed"
    /\ product \notin failed
    /\ product \in written
\* --------------------------------------------------------------------------
\* C12: a run in which a call to the store or the accessor was rejected as
\* unavailable (listing the products, fetching a series, an upsert or a
\* delete) never returns normally with a processedCount.
C12_OutageIsNeverSwallowed ==
    [][Returned => ~outage]_vars
\* --------------------------------------------------------------------------
\* C13: in a run of GET /calculate-all every step inside the loop keeps the
\* results pushed so far; a region whose call rejects is pushed with
\* success = false, processedCount 0 and an error description, a region whose
\* call returns is pushed with success = true and the processedCount it
\* returned; and when the handler answers, every known region has exactly one
\* result and the answer carries these results.
C13_EveryRegionOnce ==
    [][/\ (allPc = "regions" /\ allPc' = "regions") =>
            \/ results' = results
            \/ /\ Len(results') = Len(results) + 1
               /\ SubSeq(results', 1, Len(results)) = results
       /\ RegionRejected =>
            \E g \in geoValues :
               /\ geoValues' = geoValues \ {g}
               /\ results' = Append(results, [geo |-> g, processedCount |-> 0,
                                              success |-> FALSE, error |-> "unavailable"])
       /\ (Returned /\ allPc = "regions") =>
            results' = Append(results, [geo |-> geo, processedCount |-> processedCount,
                                        success |-> TRUE, error |-> ""])
       /\ AllReturned =>
            /\ \A g \in KnownRegions :
                  Cardinality({i \in DOMAIN results : results[i].geo = g}) = 1
            /\ \A i \in DOMAIN results : results[i].geo \in KnownRegions
            /\ allResponse'.status = 200
            /\ allResponse'.results = results]_vars

\* The handler has answered with the failure of the region it took first and,
\* after it, the success of another region with a processedCount of at least 1.
C13_Witness ==
    /\ allResponse.status = 200
    /\ Len(allResponse.results) = 2
    /\ ~allResponse.results[1].success
    /\ allResponse.results[2].success
    /\ allResponse.results[2].processedCount >= 1

TotalIsSumOfCounts ==
    [][AllReturned => allResponse'.totalProcessed = SumCounts(results)]_vars
\* --------------------------------------------------------------------------
\* C15: in every reachable state, the interleavings of overlapping calls of
\* calculateAndStorePriceChanges over one region included, the store holds at
\* most one change record and at most one streak record per (product, geo).
C15_AtMostOneRecordPerKey ==
    \A g \in Geos, p \in Products :
       /\ Cardinality(Matching(priceChanges, p, g)) <= 1
       /\ Cardinality(Matching(priceStreaks, p, g)) <= 1

\* --------------------------------------------------------------------------
\* C16: once two overlapping calls over the same region have both counted a
\* product over its present series and returned, the stored change records
\* and streak records of the product are, lastUpdated aside, those of a
\* single call over that series: the one change record, and the one streak
\* record when the series has a streak and none when it has not.
C16_ConcurrentRunsStoreSingleRunValues ==
    LET pd == Series(CalcGeo, CalcProduct)
        st == CalcStreak(pd)
    IN  (\A r \in Runs : runs[r].pc = "idle" /\ pd # << >> /\ runs[r].last = pd) =>
           /\ {StripTime(d) : d \in Matching(priceChanges, CalcProduct, CalcGeo)}
                 = {StripTime(ChangeDoc(CalcProduct, CalcGeo, pd, 0))}
           /\ {StripTime(d) : d \in Matching(priceStreaks, CalcProduct, CalcGeo)}
                 = IF HasStreak(st)
                   THEN {StripTime(StreakDoc(CalcProduct, CalcGeo, pd, st, 0))}
                   ELSE {}
\* --------------------------------------------------------------------------
\* The stored records of (p, g) are those a completed iteration over the
\* series pd writes, lastUpdated aside.
CompletedRunOver(g, p, pd) ==
    LET st == CalcStreak(pd)
    IN  /\ {StripTime(d) : d \in Matching(priceChanges, p, g)}
              = {StripTime(ChangeDoc(p, g, pd, 0))}
        /\ {StripTime(d) : d \in Matching(priceStreaks, p, g)}
              = IF HasStreak(st) THEN {StripTime(StreakDoc(p, g, pd, st, 0))} ELSE {}

\* C17: wherever a recompute stops, the stored change record and streak
\* record of every product belong together: nothing is stored for the key, or
\* both are what a completed iteration wrote over the series as it was at
\* some import (a prefix of the present series, the whole series included).
\* No state has the change record of one series next to the streak record,
\* or the missing streak record, of an earlier one.
C17_WriteIsAtomicPerProduct ==
    \A g \in Geos, p \in Products :
       \/ /\ Matching(priceChanges, p, g) = {}
          /\ Matching(priceStreaks, p, g) = {}
       \/ \E k \in 2..Len(Series(g, p)) :
             /\ ~Skipped(SubSeq(Series(g, p), 1, k))
             /\ CompletedRunOver(g, p, SubSeq(Series(g, p), 1, k))
\* --------------------------------------------------------------------------
\* C18: for every stored current period and every zone of the server, the
\* period the handler asks StatCan.findOne for is the same month of the
\* previous year.
C18_YearAgoIsSameMonthOfPreviousYear ==
    \A q \in yoyResponse.lookups : q.REF_DATE = q.currentDate - 100

\* Where C18 does hold: on a server at or east of UTC, and west of it for
\* every period but the March that follows a leap year.
YearAgoRightOutsideMarchAfterLeapYear ==
    \A q \in yoyResponse.lookups :
       (tz >= 0 \/ ~(q.currentDate % 100 = 3 /\ IsLeap(q.currentDate \div 100 - 1)))
          => q.REF_DATE = q.currentDate - 100

\* --------------------------------------------------------------------------
\* C19: when the observation findOne returns for the year-ago lookup has a
\* numeric value v, the enriched record has yearAgoPrice = v, yearAgoChange =
\* currentPrice - v, and yearAgoPercent = yearAgoChange / v * 100 when v is
\* not 0 and null when it is.
C19_YearAgoFieldsFromNumericLookup ==
    yoyResponse.status = 200 =>
       \A e \in yoyResponse.products : \A o \in statcan :
          ( /\ o.GEO = e.geo
            /\ o.Products = e.product
            /\ o.REF_DATE = YearAgoDate(e.currentDate, tz)
            /\ o.VALUE.kind = "number" ) =>
             LET v == Fin(o.VALUE.num)
             IN  /\ e.yearAgoPrice = v
                 /\ e.yearAgoChange = JsSub(e.currentPrice, v)
                 /\ e.yearAgoPercent =
                       IF v = Fin(0) THEN JsNull
                       ELSE JsMulInt(JsDiv(e.yearAgoChange, v), 100)

\* The example of the claim, in units of 0.50: current 3.00, a year ago 2.50,
\* change 0.50, 20 percent.
C19_Witness ==
    /\ yoyResponse.status = 200
    /\ \E e \in yoyResponse.products :
          /\ e.currentPrice = Fin(6)
          /\ e.yearAgoPrice = Fin(5)
          /\ e.yearAgoChange = Fin(1)
          /\ e.yearAgoPercent = Fin(20)

\* --------------------------------------------------------------------------
\* C20 as stated: in every enriched record yearAgoPrice, yearAgoChange and
\* yearAgoPercent are all three present or all three null.
C20_YearAgoFieldsAllOrNone ==
    \A e \in yoyResponse.products :
       \/ ~IsNull(e.yearAgoPrice) /\ ~IsNull(e.yearAgoChange) /\ ~IsNull(e.yearAgoPercent)
       \/ IsNull(e.yearAgoPrice) /\ IsNull(e.yearAgoChange) /\ IsNull(e.yearAgoPercent)

\* C20 amended: in every enriched record yearAgoPrice and yearAgoChange are
\* both present or both null, and yearAgoPercent is present exactly when
\* yearAgoPrice is present and not 0.
C20_YearAgoPercentAbsentAlsoForZero ==
    \A e \in yoyResponse.products :
       /\ IsNull(e.yearAgoPrice) <=> IsNull(e.yearAgoChange)
       /\ IsNull(e.yearAgoPercent) <=> (IsNull(e.yearAgoPrice) \/ e.yearAgoPrice = Fin(0))

\* An enriched record whose year-ago price is 0: the price and the change are
\* set and the percentage is null.
C20_Witness ==
    /\ yoyResponse.status = 200
    /\ \E e \in yoyResponse.products :
          /\ e.yearAgoPrice = Fin(0)
          /\ e.yearAgoChange = e.currentPrice
          /\ IsNull(e.yearAgoPercent)
\* --------------------------------------------------------------------------
\* The month-over-month fields of the enriched record e are those of a stored
\* change record of its key.
MonthOverMonthAsStored(e) ==
    \E c \in priceChanges :
       /\ c.product = e.product /\ c.geo = e.geo
       /\ c.currentPrice = e.currentPrice /\ c.previousPrice = e.previousPrice
       /\ c.change = e.change /\ c.changePercent = e.changePercent
       /\ c.currentDate = e.currentDate /\ c.previousDate = e.previousDate

YearAgoFieldsNull(e) ==
    IsNull(e.yearAgoPrice) /\ IsNull(e.yearAgoChange) /\ IsNull(e.yearAgoPercent)

\* C21: when the store holds no observation with a numeric value for the
\* target period of an enriched record (its current period minus twelve
\* months), the three year-ago fields of the record are null and its
\* month-over-month fields are as stored.
C21_LookupMissGivesNullFields ==
    yoyResponse.status = 200 =>
       \A e \in yoyResponse.products :
          (~\E o \in statcan :
                /\ o.GEO = e.geo /\ o.Products = e.product
                /\ o.REF_DATE = e.currentDate - 100
                /\ o.VALUE.kind = "number") =>
             YearAgoFieldsNull(e) /\ MonthOverMonthAsStored(e)

\* The same for the period the handler does ask for: when findOne has
\* nothing numeric to return for it, the three fields are null.
NullFieldsWhenTheQueryMisses ==
    yoyResponse.status = 200 =>
       \A e \in yoyResponse.products :
          (~\E o \in statcan :
                /\ o.GEO = e.geo /\ o.Products = e.product
                /\ o.REF_DATE = YearAgoDate(e.currentDate, tz)
                /\ o.VALUE.kind = "number") =>
             YearAgoFieldsNull(e) /\ MonthOverMonthAsStored(e)
\* --------------------------------------------------------------------------
\* C22: every stored streak record has a streakLength of at least 2 and a
\* streakType that is increase or decrease.
C22_StoredStreakIsAtLeastTwo ==
    \A r \in priceStreaks :
       /\ r.streakLength >= 2
       /\ r.streakType \in {"increase", "decrease"}

\* A run has stored a streak record of the minimal length 2 for a key whose
\* series has three observations: the walk stopped before the oldest one.
C22_Witness ==
    \E r \in priceStreaks :
       /\ r.streakLength = 2
       /\ <<r.geo, r.product>> \in fresh
       /\ Len(Series(r.geo, r.product)) = 3
\* --------------------------------------------------------------------------
\* C23: the streak record a run writes for a product holds as data the last
\* streakLength observations of the series the run fetched (which is the
\* stored series of the key), in ascending REF_DATE order, the last of them
\* the most recent observation.
C23_PointsAreFinalSegment ==
    [][(pc = "changed" /\ HasStreak(CalcStreak(priceData))) =>
          \A r \in priceStreaks' \ priceStreaks :
             /\ priceData = Series(geo, product)
             /\ Len(r.data) = r.streakLength
             /\ r.streakLength <= Len(priceData)
             /\ r.data = SubSeq(priceData, Len(priceData) - r.streakLength + 1,
                                Len(priceData))
             /\ \A i, j \in DOMAIN r.data :
                   i < j => r.data[i].REF_DATE < r.data[j].REF_DATE
             /\ r.data[Len(r.data)] = priceData[Len(priceData)]]_vars

\* A stored streak record of a processed key covers the whole series of three
\* observations.
C23_Witness ==
    \E r \in priceStreaks :
       /\ <<r.geo, r.product>> \in fresh
       /\ r.streakLength = 3
       /\ r.data = Series(r.geo, r.product)
\* --------------------------------------------------------------------------
\* C28: for a key a run has processed to the end over its present series, the
\* stored records agree: a streak record is stored exactly when the stored
\* change is not 0, its streakType is increase exactly when the change is
\* above 0 and decrease exactly when it is below.
C28_StreakAgreesWithChange ==
    \A k \in fresh :
       \A c \in Matching(priceChanges, k[2], k[1]) :
          /\ (Matching(priceStreaks, k[2], k[1]) # {}) <=> (c.change # Fin(0))
          /\ \A r \in Matching(priceStreaks, k[2], k[1]) :
                /\ (r.streakType = "increase") <=> JsGtZero(c.change)
                /\ (r.streakType = "decrease") <=> JsLtZero(c.change)

\* A processed key whose stored change is below 0 and whose stored streak is
\* a decrease.
C28_Witness ==
    \E k \in fresh :
       /\ \E c \in Matching(priceChanges, k[2], k[1]) : JsLtZero(c.change)
       /\ \E r \in Matching(priceStreaks, k[2], k[1]) : r.streakType = "decrease"

\* --------------------------------------------------------------------------
\* The records of a collection that belong to other regions than g.
Elsewhere(coll, g) == {d \in coll : d.geo # g}

\* C29: no step of a run over a region creates, changes or deletes a change
\* record or a streak record of another region.
C29_OtherRegionsUntouched ==
    [][pc # "idle" =>
          /\ Elsewhere(priceChanges', geo) = Elsewhere(priceChanges, geo)
          /\ Elsewhere(priceStreaks', geo) = Elsewhere(priceStreaks, geo)]_vars

\* A run over one region has written its change record and its streak record
\* while the store holds a change record and a streak record of the other.
C29_Witness ==
    /\ pc = "loop"
    /\ product = ""
    /\ counted # {}
    /\ \E c \in priceChanges : c.geo = geo
    /\ \E r \in priceStreaks : r.geo = geo
    /\ Elsewhere(priceChanges, geo) # {}
    /\ Elsewhere(priceStreaks, geo) # {}
\* --------------------------------------------------------------------------
\* The (geo, product) keys that have a record in a collection.
KeysOf(coll) == {<<d.geo, d.product>> : d \in coll}

\* C30: no step removes the change record of a key: the set of keys that
\* have a change record never shrinks.
C30_ChangeRecordIsNeverDeleted ==
    [][KeysOf(priceChanges) \subseteq KeysOf(priceChanges')]_vars

\* A run over a region has returned after the latest observation of one of
\* its products became invalid: the change record of the product is still
\* stored and describes the series as it was before.
C30_Witness ==
    /\ response.status = 200
    /\ \E c \in priceChanges :
          LET pd == Series(c.geo, c.product)
          IN  /\ c.geo = response.geo
              /\ Skipped(pd)
              /\ c.currentDate # pd[Len(pd)].REF_DATE
\* --------------------------------------------------------------------------
\* The routes that require a geo.
GeoRoutes == {"price-changes", "streaks", "all-price-changes", "calculate-changes"}

\* C24: a request to one of the four routes that carries no geo is answered
\* 400 with 'Geographic location (geo) is required' without a call to the
\* store, no stored record changes in the step, and no recompute starts for a
\* missing geo.
C24_MissingGeoIsRejected ==
    [][/\ (reply' # reply /\ reply'.route \in GeoRoutes /\ reply'.geo \in NoGeos)
          => /\ reply'.status = 400
             /\ reply'.error = GeoRequired
             /\ reply'.queries = 0
             /\ UNCHANGED <<statcan, priceChanges, priceStreaks>>
             /\ UNCHANGED <<pc, allPc, runs, response, yoyResponse>>
       /\ (pc' = "loop" /\ pc = "idle") => geo' \notin NoGeos]_vars

\* POST /calculate-changes without a geo has been answered 400 over a store
\* that holds change records.
C24_Witness ==
    /\ reply.route = "calculate-changes"
    /\ reply.geo = Absent
    /\ reply.status = 400
    /\ priceChanges # {}
    /\ pc = "idle"

\* The elements of a sequence.
Range(s) == {s[i] : i \in DOMAIN s}

Min(a, b) == IF a < b THEN a ELSE b

\* The answer r is the series of (g, p) in ascending period order, cut to its
\* first l observations when l is a limit.
IsSeriesUpTo(r, g, p, l) ==
    LET all == {d \in statcan : d.GEO = g /\ d.Products = p}
    IN  /\ \A i, j \in DOMAIN r : i < j => r[i].REF_DATE < r[j].REF_DATE
        /\ Range(r) \subseteq all
        /\ Len(r) = IF l = NoLimit THEN Cardinality(all) ELSE Min(l, Cardinality(all))
        /\ \A d \in Range(r), e \in all \ Range(r) : d.REF_DATE < e.REF_DATE

\* C25: the answer of GET / to a query with geo and product and no date is
\* the series of the pair in ascending period order, cut to its first
\* `limit` observations when a limit is given and whole when none is.
C25_RawSeriesInOrderUpToLimit ==
    (reply.route = "/" /\ reply.status = 200 /\ reply.date = NoDate)
    => IsSeriesUpTo(reply.results, reply.geo, reply.product, reply.limit)

\* The same for the requests that carry no limit or a limit of at least one.
C25_HoldsForPositiveLimit ==
    (reply.route = "/" /\ reply.status = 200 /\ reply.date = NoDate /\ reply.limit # 0)
    => IsSeriesUpTo(reply.results, reply.geo, reply.product, reply.limit)
\* --------------------------------------------------------------------------
\* The sequence r holds, most extreme first, the Min(n, ...) most extreme of
\* the records of coll whose changePercent has the sign dir (1: above zero,
\* -1: below zero).
IsTopOf(r, coll, dir, n) ==
    LET side == {d \in coll : IF dir = 1 THEN JsGtZero(d.changePercent)
                                         ELSE JsLtZero(d.changePercent)}
        further(a, b) == IF dir = 1 THEN JsLess(b.changePercent, a.changePercent)
                                    ELSE JsLess(a.changePercent, b.changePercent)
    IN  /\ Range(r) \subseteq side
        /\ \A i, j \in DOMAIN r : i < j => ~further(r[j], r[i])
        /\ Len(r) = Min(n, Cardinality(side))
        /\ \A i, j \in DOMAIN r : i # j => r[i] # r[j]
        /\ \A d \in side \ Range(r), e \in Range(r) : ~further(d, e)

\* What the claim asks of an answer of GET /price-changes over the records
\* coll of the store.
IsTopChanges(rep, coll) ==
    LET region == {d \in coll : d.geo = rep.geo}
    IN  /\ IsTopOf(rep.gainers, region, 1, rep.limit)
        /\ IsTopOf(rep.losers, region, -1, rep.limit)
        /\ \A i \in DOMAIN rep.gainers, j \in DOMAIN rep.losers :
              rep.gainers[i].product # rep.losers[j].product

\* C26: when GET /price-changes answers, its gainers are the N records of
\* the region with the highest changePercent above zero, in descending order,
\* its losers the N records with the lowest changePercent below zero, in
\* ascending order, each list has at most N records, and no product is in
\* both lists.
C26_TopChangesByDirection ==
    [][(reply.stage = "losers" /\ reply'.status = 200)
       => IsTopChanges(reply', priceChanges)]_vars

\* The same for the requests with no limit or a limit of at least one, when
\* the store does not change while the requests are read.
C26_HoldsForPositiveLimitAtRest ==
    (reply.route = "price-changes" /\ reply.status = 200 /\ reply.limit # 0)
    => IsTopChanges(reply, priceChanges)

\* With a limit of at least one the answer can still hold one product in both
\* lists, when a recompute writes between the two queries.
C26_DisjointForPositiveLimit ==
    (reply.route = "price-changes" /\ reply.status = 200 /\ reply.limit # 0)
    => \A i \in DOMAIN reply.gainers, j \in DOMAIN reply.losers :
          reply.gainers[i].product # reply.losers[j].product
\* --------------------------------------------------------------------------
\* C27: with the connection enabled, a step taken while the connection is not
\* connected runs no handler of /api/statcan (no answer of a handler appears
\* and no stored record changes), and what the middleware answers then is 503
\* 'Database connection in progress' while connecting and 503 'Database not
\* connected' in every other state; so a handler answers only when connected.
C27_NoHandlerRunsUnlessConnected ==
    [][(shouldConnectMongo /\ readyState # 1)
       => /\ reply' = reply
          /\ UNCHANGED <<statcan, priceChanges, priceStreaks, pc, response, yoyResponse>>
          /\ gate' # gate
             => gate' = [status |-> 503,
                         error |-> IF readyState = 2
                                   THEN "Database connection in progress"
                                   ELSE "Database not connected",
                         readyState |-> readyState]]_vars

\* A handler has answered 200 while the connection was up, the connection has
\* gone since, and the request that arrived then was answered 503 'Database
\* not connected'.
C27_Witness ==
    /\ shouldConnectMongo
    /\ readyState \in {0, 3, 99}
    /\ gate = [status |-> 503, error |-> "Database not connected",
               readyState |-> readyState]
    /\ reply.status = 200

====
